---- MODULE Spec2Model ----
(***************************************************************************)
(* MediConnect (myapp1/views.py): the chatbot and its session history, the *)
(* reply parser, the avatar fallback chain, and the doctor record store     *)
(* with its filtered queries.                                               *)
(*                                                                          *)
(* Texts are sequences of tokens.  A token is one of                        *)
(*   " "      one whitespace character                                      *)
(*   "fence"  a code-fence marker (three backquotes)                        *)
(*   "json"   the word json (the fence tag)                                 *)
(*   "prose"  a word that is not JSON                                       *)
(*   "42"     a run of digits                                               *)
(*   anything else names a complete JSON literal (see JsonValue).           *)
(***************************************************************************)
EXTENDS Integers, Sequences, FiniteSets, TLC

VARIABLES
    client,         \* module-level Gemini client: TRUE when configured
    chat_history,   \* request.session['chat_history']
    full_log,       \* every turn ever appended, in order (history variable)
    prev_history,   \* chat_history as it was before the last chatbot request
    chat_out,       \* the last chatbot request: the model call and the response
    response_text,  \* the argument of parse_ai_response
    parse_out,      \* the outcome of parse_ai_response(response_text)
    store,          \* the Contact table, in id order
    next_id,        \* the id the next created Contact gets
    http_out,       \* the last record-store request and its response
    avatar_out,     \* the last avatar resolution and its outcome
    avatar_prev,    \* the avatar resolution before the last one
    api_out,        \* the last generate_avatar_api request and its response
    select_out      \* the last select_sample_image_by_gender call and its result

vars == <<client, chat_history, full_log, prev_history, chat_out,
          response_text, parse_out, store, next_id, http_out,
          avatar_out, avatar_prev, api_out, select_out>>

chatVars   == <<client, chat_history, full_log, prev_history, chat_out>>
parseVars  == <<response_text, parse_out>>
storeVars  == <<store, next_id, http_out>>
avatarVars == <<avatar_out, avatar_prev, api_out, select_out>>

----------------------------------------------------------------------------
(* Bounds *)

MaxTextLen == 4     \* longest reply text given to parse_ai_response
MaxTurns == 11      \* successful chatbot exchanges in the long-history runs
ChatTurns == 2      \* successful chatbot exchanges in the rich-reply runs

----------------------------------------------------------------------------
(* Python helpers *)

Min(a, b) == IF a <= b THEN a ELSE b
Max(a, b) == IF a >= b THEN a ELSE b

\* s[-n:] for n > 0
LastN(s, n) == SubSeq(s, Max(1, Len(s) - n + 1), Len(s))

WS == " "
FENCE == "fence"

\* str.strip(): leading and trailing whitespace removed
RECURSIVE LStrip(_)
LStrip(t) == IF t # <<>> /\ Head(t) = WS THEN LStrip(Tail(t)) ELSE t
RECURSIVE RStrip(_)
RStrip(t) ==
    IF t # <<>> /\ t[Len(t)] = WS THEN RStrip(SubSeq(t, 1, Len(t) - 1)) ELSE t
Strip(t) == RStrip(LStrip(t))

\* str.startswith
StartsWith(t, p) == Len(t) >= Len(p) /\ SubSeq(t, 1, Len(p)) = p

\* the first position where sep occurs in t, 0 when it does not
Find(t, sep) ==
    LET hits == {i \in 1..(Len(t) - Len(sep) + 1) :
                    SubSeq(t, i, i + Len(sep) - 1) = sep}
    IN  IF hits = {} THEN 0 ELSE CHOOSE i \in hits : \A j \in hits : i <= j

\* str.split(sep): the segments between the occurrences of sep
RECURSIVE Split(_, _)
Split(t, sep) ==
    LET i == Find(t, sep)
    IN  IF i = 0 THEN <<t>>
        ELSE <<SubSeq(t, 1, i - 1)>> \o Split(SubSeq(t, i + Len(sep), Len(t)), sep)

----------------------------------------------------------------------------
(* JSON *)

NoKey == "<absent>"
NoText == [some |-> FALSE, v |-> <<>>]
NoNum == [some |-> FALSE, v |-> 0]
SomeText(t) == [some |-> TRUE, v |-> t]
SomeNum(n) == [some |-> TRUE, v |-> n]
NoFilters == [specialty |-> NoText, city |-> NoText,
              max_fees |-> NoNum, min_rating |-> NoNum]

\* a parsed JSON value as the chatbot reads it: its type and, for an object,
\* the keys action and message (NoKey, NoText: the key is absent) and the four
\* filter keys (absent or null: both are falsy to search_doctors)
Dict(action, message, filters) ==
    [type |-> "object", action |-> action, message |-> message, filters |-> filters]
NonDict(type) ==
    [type |-> type, action |-> NoKey, message |-> NoText, filters |-> NoFilters]

ChatLiterals == {"{chat}", "{chat-nomsg}", "{search}", "{search-nomsg}",
                 "{search-fee0}", "{}", "{msg}"}
ScalarLiterals == {"str-lit", "[1]", "null"}
StyleLiterals == {"{style}", "{style-empty}"}
GenderLiterals == {"{male-1}", "{male-5}", "{female-6}", "{female-2}",
                   "{idx-9}", "{idx-neg1}", "{idx-str}", "{no-idx}"}
BodyLiterals == {"{desc,name}", "{desc}", "{name}", "{desc-empty,name}",
                 "{desc,name-null}", "{desc,name-num}", "{desc-num,name}"}
Literals == ChatLiterals \cup ScalarLiterals \cup StyleLiterals \cup GenderLiterals
                \cup BodyLiterals
DIGITS == "42"

\* the type json.loads gives a literal
TypeOf(tok) ==
    CASE tok = DIGITS -> "number"
      [] tok = "str-lit" -> "string"
      [] tok = "[1]" -> "list"
      [] tok = "null" -> "null"
      [] OTHER -> "object"

\* what json.loads returns for a literal, read through the chatbot's keys
JsonValue(tok) ==
    CASE tok = "{chat}" -> Dict("chat", SomeText(<<"hello">>), NoFilters)
      [] tok = "{chat-nomsg}" -> Dict("chat", NoText, NoFilters)
      [] tok = "{search}" ->
            Dict("search", SomeText(<<"looking">>),
                 [specialty |-> SomeText(<<"c">>), city |-> NoText,
                  max_fees |-> SomeNum(100), min_rating |-> NoNum])
      [] tok = "{search-nomsg}" ->
            Dict("search", NoText,
                 [specialty |-> NoText, city |-> NoText,
                  max_fees |-> NoNum, min_rating |-> SomeNum(4)])
      [] tok = "{search-fee0}" ->
            Dict("search", SomeText(<<"free">>),
                 [specialty |-> NoText, city |-> NoText,
                  max_fees |-> SomeNum(0), min_rating |-> NoNum])
      [] tok = "{msg}" -> Dict(NoKey, SomeText(<<"note">>), NoFilters)
      [] tok \in ChatLiterals \cup StyleLiterals \cup GenderLiterals ->
            Dict(NoKey, NoText, NoFilters)
      [] OTHER -> NonDict(TypeOf(tok))

\* json.loads(text): surrounding whitespace is ignored; the text must hold
\* exactly one literal (a run of digit tokens is one number), else
\* json.JSONDecodeError
json_loads(t) ==
    LET s == Strip(t)
    IN  IF Len(s) = 1 /\ s[1] \in Literals
            THEN [ok |-> TRUE, tok |-> s[1]]
        ELSE IF Len(s) >= 1 /\ \A i \in 1..Len(s) : s[i] = DIGITS
            THEN [ok |-> TRUE, tok |-> DIGITS]
        ELSE [ok |-> FALSE, tok |-> NoKey]

\* the fence stripping shared by parse_ai_response and the avatar functions:
\*   if s.startswith(FENCE json): s = s.split(FENCE json)[1].split(FENCE)[0]
\*   elif s.startswith(FENCE):    s = s.split(FENCE)[1].split(FENCE)[0]
\* ok = FALSE stands for the IndexError of a missing segment
StripFence(cleaned) ==
    LET after(sep) ==
            LET parts == Split(cleaned, sep)
            IN  IF Len(parts) < 2 THEN [ok |-> FALSE, text |-> <<>>]
                ELSE [ok |-> TRUE, text |-> Split(parts[2], <<FENCE>>)[1]]
    IN  IF StartsWith(cleaned, <<FENCE, "json">>) THEN after(<<FENCE, "json">>)
        ELSE IF StartsWith(cleaned, <<FENCE>>) THEN after(<<FENCE>>)
        ELSE [ok |-> TRUE, text |-> cleaned]

Return(d) == [kind |-> "return", data |-> d, exc |-> NoKey]
Raise(e) == [kind |-> "raise", data |-> NonDict("none"), exc |-> e]

\* a plausible slip: the fallback message is the cleaned text, not the raw one
parse_ai_response_cleaned(text) ==
    LET cleaned == Strip(text)
        inner == StripFence(cleaned)
        loaded == json_loads(Strip(inner.text))
    IN  IF ~inner.ok THEN Raise("IndexError")
        ELSE IF loaded.ok THEN Return(JsonValue(loaded.tok))
        ELSE Return(Dict("chat", SomeText(cleaned), NoFilters))

parse_ai_response(text) ==
    LET cleaned == Strip(text)
        inner == StripFence(cleaned)
        loaded == json_loads(Strip(inner.text))
    IN  IF ~inner.ok THEN Raise("IndexError")
        ELSE IF loaded.ok THEN Return(JsonValue(loaded.tok))
        ELSE Return(Dict("chat", SomeText(text), NoFilters))

----------------------------------------------------------------------------
(* The reply parser applied to every short text *)

ParseTokens == {WS, FENCE, "json", "prose", DIGITS, "{chat}", "[1]"}
Texts == UNION {[1..n -> ParseTokens] : n \in 0..MaxTextLen}

NoParse == [kind |-> "none", data |-> NonDict("none"), exc |-> NoKey]

Parse ==
    /\ parse_out = NoParse
    /\ parse_out' = parse_ai_response(response_text)
    /\ UNCHANGED <<response_text, chatVars, storeVars, avatarVars>>

----------------------------------------------------------------------------
(* The record store and its filtered queries *)

AICap == 10         \* search_doctors: [:10]

\* case folding of the characters the model's strings use
Lower(c) ==
    CASE c = "C" -> "c" [] c = "D" -> "d" [] c = "N" -> "n" [] c = "L" -> "l"
      [] OTHER -> c
LowerStr(t) == [i \in 1..Len(t) |-> Lower(t[i])]

\* field__icontains=sub
icontains(field, sub) == Find(LowerStr(field), LowerStr(sub)) # 0 \/ sub = <<>>

\* Python truthiness of filters.get(key) / cleaned_data.get(key)
TruthyText(o) == o.some /\ o.v # <<>>
TruthyNum(o) == o.some /\ o.v # 0

\* the chain of if <field>: qs = qs.filter(...) of search_doctors and recommend
Passes(r, f) ==
    /\ TruthyText(f.specialty) => icontains(r.specialty, f.specialty.v)
    /\ TruthyText(f.city) => icontains(r.city, f.city.v)
    /\ TruthyNum(f.max_fees) => r.fees <= f.max_fees.v
    /\ TruthyNum(f.min_rating) => r.rating >= f.min_rating.v

Filtered(table, f) == {table[i] : i \in {j \in 1..Len(table) : Passes(table[j], f)}}

\* order_by('-rating', 'fees') with the wrong direction on fees
BeforeFeesDesc(a, b, tie) ==
    \/ a.rating > b.rating
    \/ a.rating = b.rating /\ a.fees > b.fees
    \/ a.rating = b.rating /\ a.fees = b.fees
        /\ IF tie = "asc" THEN a.id < b.id ELSE a.id > b.id

\* order_by('-rating', 'fees'): rating descending, then fees ascending.  The
\* database leaves the order of rows equal in both keys open; tie is the order
\* it happens to produce (by id, ascending or descending).
Before(a, b, tie) ==
    \/ a.rating > b.rating
    \/ a.rating = b.rating /\ a.fees < b.fees
    \/ a.rating = b.rating /\ a.fees = b.fees
        /\ IF tie = "asc" THEN a.id < b.id ELSE a.id > b.id

RECURSIVE OrderBy(_, _)
OrderBy(S, tie) ==
    IF S = {} THEN <<>>
    ELSE LET first == CHOOSE x \in S : \A y \in S \ {x} : Before(x, y, tie)
         IN  <<first>> \o OrderBy(S \ {first}, tie)

\* a plausible slip: the cap forgotten
search_doctors_nocap(table, f, tie) == OrderBy(Filtered(table, f), tie)

\* search_doctors(filters)
search_doctors(table, f, tie) ==
    LET qs == OrderBy(Filtered(table, f), tie)
    IN  SubSeq(qs, 1, Min(AICap, Len(qs)))

\* the query of recommend for a valid form
recommend_query(table, f, tie) == OrderBy(Filtered(table, f), tie)

----------------------------------------------------------------------------
(* The chatbot *)

HistoryCap == 20    \* chatbot: chat_history[-20:]

Turn(role, content) == [role |-> role, content |-> content]

\* dict.get(key, default) on the message key
GetMessage(parsed, default) ==
    IF parsed.message.some THEN parsed.message.v ELSE default

\* the response of one chatbot request: what the bot's message is
BotUnavailable == [kind |-> "unavailable", body |-> <<>>, cards |-> 0]
BotError(e) == [kind |-> "error", body |-> <<e>>, cards |-> 0]
BotChat(text) == [kind |-> "chat", body |-> text, cards |-> 0]
BotSearch(intro, doctors) == [kind |-> "search", body |-> intro, cards |-> Len(doctors)]
BotPage == [kind |-> "page", body |-> <<>>, cards |-> 0]

\* a plausible slip: the oldest 20 turns kept instead of the newest
append_turns_keep_oldest(history, user_input, content) ==
    SubSeq(history \o <<Turn("User", user_input), Turn("Assistant", content)>>,
           1, Min(HistoryCap, Len(history) + 2))

\* a plausible slip: an odd window
append_turns_odd(history, user_input, content) ==
    LastN(history \o <<Turn("User", user_input), Turn("Assistant", content)>>,
          HistoryCap - 1)

\* chat_history.append(User); chat_history.append(Assistant);
\* request.session['chat_history'] = chat_history[-20:]
append_turns(history, user_input, content) ==
    LastN(history \o <<Turn("User", user_input), Turn("Assistant", content)>>,
          HistoryCap)

\* a plausible slip: the user turn stored before the model is called
chatbot_try_user_first(history, user_input, call, table, tie) ==
    LET po == parse_ai_response(call.text)
        parsed == po.data
        content == GetMessage(parsed, call.text)
        early == LastN(Append(history, Turn("User", user_input)), HistoryCap)
    IN  IF ~call.ok
            THEN [history |-> early, bot |-> BotError(call.exc), appended |-> <<>>]
        ELSE IF po.kind = "raise"
            THEN [history |-> early, bot |-> BotError(po.exc), appended |-> <<>>]
        ELSE IF parsed.type # "object"
            THEN [history |-> early, bot |-> BotError("AttributeError"), appended |-> <<>>]
        ELSE [history |-> append_turns(history, user_input, content),
              bot |-> IF parsed.action = "search"
                        THEN BotSearch(GetMessage(parsed, <<"Here are the doctors I found:">>),
                                       search_doctors(table, parsed.filters, tie))
                        ELSE BotChat(content),
              appended |-> <<Turn("User", user_input), Turn("Assistant", content)>>]

\* the try block of chatbot and its except clause: the model call, the parse,
\* the search or chat reply, and the two appends.  call is what
\* client.models.generate_content did: it raised call.exc or returned call.text.
\* parsed.get on a value that is no dict raises AttributeError.
chatbot_try(history, user_input, call, table, tie) ==
    LET po == parse_ai_response(call.text)
        parsed == po.data
        content == GetMessage(parsed, call.text)
    IN  IF ~call.ok
            THEN [history |-> history, bot |-> BotError(call.exc), appended |-> <<>>]
        ELSE IF po.kind = "raise"
            THEN [history |-> history, bot |-> BotError(po.exc), appended |-> <<>>]
        ELSE IF parsed.type # "object"
            THEN [history |-> history, bot |-> BotError("AttributeError"), appended |-> <<>>]
        ELSE [history |-> append_turns(history, user_input, content),
              bot |-> IF parsed.action = "search"
                        THEN BotSearch(GetMessage(parsed, <<"Here are the doctors I found:">>),
                                       search_doctors(table, parsed.filters, tie))
                        ELSE BotChat(content),
              appended |-> <<Turn("User", user_input), Turn("Assistant", content)>>]

CallFailed == [ok |-> FALSE, text |-> <<>>, exc |-> "APIError"]
CallReturned(t) == [ok |-> TRUE, text |-> t, exc |-> NoKey]
NoCall == [ok |-> FALSE, text |-> <<>>, exc |-> NoKey]

ChatOut(method, user_input, model, call, bot) ==
    [method |-> method, input |-> user_input, model |-> model,
     text |-> call.text, bot |-> bot]
NoChat == ChatOut("none", <<>>, "none", NoCall, BotPage)

\* chatbot, POST: cap bounds the turns the run appends
chatbot_post(user_input, call, tie, cap) ==
    /\ prev_history' = chat_history
    /\ IF ~client
         THEN /\ chat_out' = ChatOut("POST", user_input, "absent", NoCall, BotUnavailable)
              /\ UNCHANGED <<chat_history, full_log>>
         ELSE LET r == chatbot_try(chat_history, user_input, call, store, tie)
              IN  /\ Len(full_log) + Len(r.appended) <= 2 * cap
                  /\ chat_history' = r.history
                  /\ full_log' = full_log \o r.appended
                  /\ chat_out' = ChatOut("POST", user_input,
                                         IF call.ok THEN "ok" ELSE "raise", call, r.bot)
    /\ UNCHANGED <<client, parseVars, storeVars, avatarVars>>

\* chatbot, any other method: the page alone
chatbot_get ==
    /\ prev_history' = chat_history
    /\ chat_out' = ChatOut("GET", <<>>, "none", NoCall, BotPage)
    /\ UNCHANGED <<client, chat_history, full_log, parseVars, storeVars, avatarVars>>

\* the module is loaded again (a restart): client is set, or None when the
\* import of google.genai fails; the session outlives the process
load_module(c) ==
    /\ client' = c
    /\ client # c
    /\ UNCHANGED <<chat_history, full_log, prev_history, chat_out,
                   parseVars, storeVars, avatarVars>>

----------------------------------------------------------------------------
(* Record-store requests *)

MaxCreates == 3     \* Contacts created in one run
BaseLen == 3        \* length of the pattern a queried table repeats
MaxRecords == 11    \* rows of a queried table

Contact(id, f) ==
    [id |-> id, full_name |-> f.full_name, specialty |-> f.specialty,
     city |-> f.city, rating |-> f.rating, fees |-> f.fees]

\* the cleaned_data of CreateContactForm the runs submit
FieldKinds ==
    << [full_name |-> "Alice", specialty |-> <<"C", "a">>, city |-> <<"N", "y">>,
        rating |-> 5, fees |-> 200],
       [full_name |-> "Bob", specialty |-> <<"D", "a">>, city |-> <<"L", "a">>,
        rating |-> 5, fees |-> 100],
       [full_name |-> "Doctor", specialty |-> <<"C", "a">>, city |-> <<"L", "a">>,
        rating |-> 4, fees |-> 0],
       [full_name |-> "John Smith", specialty |-> <<"D", "a">>, city |-> <<"N", "y">>,
        rating |-> 3, fees |-> 100] >>
Fields == {FieldKinds[k] : k \in 1..Len(FieldKinds)}

\* the filters the runs submit (from the form or from the model's reply)
Filters ==
    [specialty : {NoText, SomeText(<<"c", "A">>)},
     city : {NoText, SomeText(<<"l">>)},
     max_fees : {NoNum, SomeNum(0), SomeNum(100)},
     min_rating : {NoNum, SomeNum(0), SomeNum(4)}]

Ties == {"asc", "desc"}

HasId(table, id) == \E i \in 1..Len(table) : table[i].id = id
RowOf(table, id) == CHOOSE i \in 1..Len(table) : table[i].id = id

HttpOut(op, id, status, exc, f, queried, results, before) ==
    [op |-> op, id |-> id, status |-> status, exc |-> exc, filter |-> f,
     queried |-> queried, results |-> results, before |-> before]
Plain(op, id, status, exc) ==
    HttpOut(op, id, status, exc, NoFilters, FALSE, <<>>, store)
NoHttp == HttpOut("none", 0, 0, NoKey, NoFilters, FALSE, <<>>, <<>>)

\* what the request handler answers when a view raises: Http404 becomes a 404
\* response, any other exception a 500 response
StatusOfException(exc) == IF exc = "Http404" THEN 404 ELSE 500

\* Contact.objects.get(id=id): raises Contact.DoesNotExist when no row has the id
objects_get(table, id) ==
    IF HasId(table, id) THEN NoKey ELSE "DoesNotExist"

\* get_object_or_404(Contact, id=id): raises Http404 when no row has the id
get_object_or_404(table, id) ==
    IF HasId(table, id) THEN NoKey ELSE "Http404"

create_contact(method, valid, f) ==
    /\ IF method = "POST" /\ valid
         THEN /\ next_id <= MaxCreates
              /\ store' = Append(store, Contact(next_id, f))
              /\ next_id' = next_id + 1
              /\ http_out' = Plain("create", next_id, 302, NoKey)
         ELSE /\ http_out' = Plain("create", 0, 200, NoKey)
              /\ UNCHANGED <<store, next_id>>
    /\ UNCHANGED <<chatVars, parseVars, avatarVars>>

update_contact(id, method, valid, f) ==
    /\ LET exc == objects_get(store, id)
       IN  IF exc # NoKey
             THEN /\ http_out' = Plain("update", id, StatusOfException(exc), exc)
                  /\ UNCHANGED store
           ELSE IF method = "POST" /\ valid
             THEN /\ store' = [store EXCEPT ![RowOf(store, id)] = Contact(id, f)]
                  /\ http_out' = Plain("update", id, 302, NoKey)
           ELSE /\ http_out' = Plain("update", id, 200, NoKey)
                /\ UNCHANGED store
    /\ UNCHANGED <<next_id, chatVars, parseVars, avatarVars>>

delete_contact(id) ==
    /\ LET exc == objects_get(store, id)
       IN  IF exc # NoKey
             THEN /\ http_out' = Plain("delete", id, StatusOfException(exc), exc)
                  /\ UNCHANGED store
             ELSE /\ store' = SelectSeq(store, LAMBDA r : r.id # id)
                  /\ http_out' = Plain("delete", id, 302, NoKey)
    /\ UNCHANGED <<next_id, chatVars, parseVars, avatarVars>>

contact_detail(id) ==
    /\ LET exc == get_object_or_404(store, id)
       IN  IF exc # NoKey
             THEN http_out' = Plain("detail", id, StatusOfException(exc), exc)
             ELSE http_out' = Plain("detail", id, 200, NoKey)
    /\ UNCHANGED <<store, next_id, chatVars, parseVars, avatarVars>>

\* recommend: the query runs for a valid POST alone
recommend(method, valid, f, tie) ==
    /\ http_out = NoHttp
    /\ http_out' = HttpOut("recommend", 0, 200, NoKey, f,
                           method = "POST" /\ valid,
                           IF method = "POST" /\ valid
                             THEN recommend_query(store, f, tie) ELSE <<>>,
                           store)
    /\ UNCHANGED <<store, next_id, chatVars, parseVars, avatarVars>>

\* search_doctors applied to a filter the model's reply carries
ai_search(f, tie) ==
    /\ http_out = NoHttp
    /\ http_out' = HttpOut("search_doctors", 0, 200, NoKey, f, TRUE,
                           search_doctors(store, f, tie), store)
    /\ UNCHANGED <<store, next_id, chatVars, parseVars, avatarVars>>

\* the tables the queries run on: a pattern of rows repeated to n rows
Bases == UNION {[1..n -> 1..Len(FieldKinds)] : n \in 1..BaseLen}
Repeat(base, n) ==
    [i \in 1..n |-> Contact(i, FieldKinds[base[((i - 1) % Len(base)) + 1]])]
SearchStores == {Repeat(base, n) : base \in Bases, n \in 0..MaxRecords}

\* the table the chatbot runs see
SeedStore == Repeat(<<1, 2, 3>>, 3)

----------------------------------------------------------------------------
(* The avatar resolver *)

SampleCount == 8    \* the sample_images lists hold 8 paths

\* int(hashlib.md5(doctor_name.encode()).hexdigest(), 16) % 8 of the names
\* the runs use
Md5Index(name) ==
    CASE name = "Alice" -> 0
      [] name = "Bob" -> 3
      [] name = "Doctor" -> 7
      [] name = "John Smith" -> 4
      [] OTHER -> 6          \* the empty name
\* hashlib.md5(s.encode()).hexdigest(), kept symbolic
Md5Hex(s) == <<"md5", s>>

NoUrl == [host |-> NoKey, style |-> NoKey, seed |-> <<>>, bg |-> NoKey, image |-> 0 - 1]
\* staticfiles_storage.url(sample_images[i])
StaticUrl(i) ==
    [host |-> "static", style |-> NoKey, seed |-> <<>>, bg |-> NoKey, image |-> i]
\* https://api.dicebear.com/7.x/{style}/svg?seed={seed}[&backgroundColor={bg}]
DiceBear(style, seed, bg) ==
    [host |-> "api.dicebear.com", style |-> style, seed |-> seed, bg |-> bg,
     image |-> 0 - 1]
\* https://ui-avatars.com/api/?name=Dr+{num}&...
UiAvatars(num) ==
    [host |-> "ui-avatars.com", style |-> NoKey, seed |-> <<"num", num>>, bg |-> NoKey,
     image |-> 0 - 1]

\* the keys select_sample_image_by_gender reads of a parsed reply
GenderValue(tok) ==
    CASE tok = "{male-1}" -> [gender |-> "male", index_type |-> "int", index |-> 1]
      [] tok = "{male-5}" -> [gender |-> "male", index_type |-> "int", index |-> 5]
      [] tok = "{female-6}" -> [gender |-> "female", index_type |-> "int", index |-> 6]
      [] tok = "{female-2}" -> [gender |-> "female", index_type |-> "int", index |-> 2]
      [] tok = "{idx-9}" -> [gender |-> "male", index_type |-> "int", index |-> 9]
      [] tok = "{idx-neg1}" -> [gender |-> "female", index_type |-> "int", index |-> 0 - 1]
      [] tok = "{idx-str}" -> [gender |-> "male", index_type |-> "str", index |-> 0]
      [] OTHER -> [gender |-> NoKey, index_type |-> "absent", index |-> 0]

\* the keys generate_avatar_from_description reads of a parsed reply, with
\* the defaults of params.get
StyleValue(tok, doctor_name) ==
    IF tok = "{style}"
        THEN [style |-> "bottts", seed |-> <<"lit", "s1">>, bg |-> "ff0000"]
        ELSE [style |-> "avataaars", seed |-> Md5Hex(doctor_name), bg |-> "3b82f6"]

\* response.text.strip(), the fence stripping and json.loads of the avatar
\* functions: the literal parsed, or the failure that reaches the except clause
AvatarReply(call) ==
    LET inner == StripFence(Strip(call.text))
        loaded == json_loads(Strip(inner.text))
    IN  IF ~call.ok THEN [ok |-> FALSE, tok |-> NoKey]
        ELSE IF ~inner.ok THEN [ok |-> FALSE, tok |-> NoKey]
        ELSE loaded

Selected(image, ran) == [image |-> image, ran |-> ran]

\* select_sample_image_by_gender(doctor_name, description): the index of the
\* sample image chosen, and the tiers that ran.  params.get on a value that is
\* no dict, and image_index % 8 or the list index on a value that is no int,
\* raise inside the try block.
select_sample_image_by_gender(doctor_name, c, call) ==
    LET reply == AvatarReply(call)
        g == GenderValue(reply.tok)
        hashed == Md5Index(doctor_name) % SampleCount
    IN  IF ~c THEN Selected(hashed, <<"name-hash">>)
        ELSE IF ~reply.ok \/ TypeOf(reply.tok) # "object" \/ g.index_type = "str"
            THEN Selected(hashed, <<"gender-ai", "name-hash">>)
        ELSE Selected(g.index % SampleCount, <<"gender-ai">>)

AvReturn(url, method, ran) ==
    [kind |-> "return", url |-> url, method |-> method, ran |-> ran, exc |-> NoKey]
AvRaise(exc, ran) ==
    [kind |-> "raise", url |-> NoUrl, method |-> NoKey, ran |-> ran, exc |-> exc]

\* a plausible slip: the sample-image fallback without its own try/except
generate_avatar_unguarded(description, doctor_name, c, styleCall, genderCall, staticOk) ==
    LET reply == AvatarReply(styleCall)
        p == StyleValue(reply.tok, doctor_name)
        sel == select_sample_image_by_gender(doctor_name, c, genderCall)
    IN  IF ~c
            THEN IF staticOk
                   THEN AvReturn(StaticUrl(Md5Index(doctor_name) % SampleCount),
                                 "sample-image", <<"name-hash">>)
                   ELSE AvReturn(DiceBear("avataaars", Md5Hex(doctor_name), NoKey),
                                 "dicebear-simple", <<"name-hash", "placeholder">>)
        ELSE IF reply.ok /\ TypeOf(reply.tok) = "object"
            THEN AvReturn(DiceBear(p.style, p.seed, p.bg), "dicebear-ai", <<"style-ai">>)
        ELSE IF staticOk
            THEN AvReturn(StaticUrl(sel.image), "sample-image-fallback",
                          <<"style-ai">> \o sel.ran)
        ELSE AvRaise("ValueError", <<"style-ai">> \o sel.ran)

\* a plausible slip: the last fallback tagged as the sample-image one
generate_avatar_mistagged(description, doctor_name, c, styleCall, genderCall, staticOk) ==
    LET reply == AvatarReply(styleCall)
        p == StyleValue(reply.tok, doctor_name)
        sel == select_sample_image_by_gender(doctor_name, c, genderCall)
    IN  IF ~c
            THEN IF staticOk
                   THEN AvReturn(StaticUrl(Md5Index(doctor_name) % SampleCount),
                                 "sample-image", <<"name-hash">>)
                   ELSE AvReturn(DiceBear("avataaars", Md5Hex(doctor_name), NoKey),
                                 "dicebear-simple", <<"name-hash", "placeholder">>)
        ELSE IF reply.ok /\ TypeOf(reply.tok) = "object"
            THEN AvReturn(DiceBear(p.style, p.seed, p.bg), "dicebear-ai", <<"style-ai">>)
        ELSE IF staticOk
            THEN AvReturn(StaticUrl(sel.image), "sample-image-fallback",
                          <<"style-ai">> \o sel.ran)
        ELSE AvReturn(DiceBear("avataaars", Md5Hex(description), NoKey),
                      "sample-image-fallback", <<"style-ai">> \o sel.ran \o <<"placeholder">>)

\* generate_avatar_from_description(description, doctor_name).  styleCall and
\* genderCall are what the two generate_content calls do, staticOk whether
\* staticfiles_storage.url returns (it raises otherwise).
generate_avatar_from_description(description, doctor_name, c, styleCall, genderCall, staticOk) ==
    LET reply == AvatarReply(styleCall)
        p == StyleValue(reply.tok, doctor_name)
        sel == select_sample_image_by_gender(doctor_name, c, genderCall)
    IN  IF ~c
            THEN IF staticOk
                   THEN AvReturn(StaticUrl(Md5Index(doctor_name) % SampleCount),
                                 "sample-image", <<"name-hash">>)
                   ELSE AvReturn(DiceBear("avataaars", Md5Hex(doctor_name), NoKey),
                                 "dicebear-simple", <<"name-hash", "placeholder">>)
        ELSE IF reply.ok /\ TypeOf(reply.tok) = "object"
            THEN AvReturn(DiceBear(p.style, p.seed, p.bg), "dicebear-ai", <<"style-ai">>)
        ELSE IF staticOk
            THEN AvReturn(StaticUrl(sel.image), "sample-image-fallback",
                          <<"style-ai">> \o sel.ran)
        ELSE AvReturn(DiceBear("avataaars", Md5Hex(description), NoKey),
                      "dicebear-fallback", <<"style-ai">> \o sel.ran \o <<"placeholder">>)

\* get_random_profile_image(doctor_name): static1 and static2 are the two
\* staticfiles_storage.url calls, choice is random.choice's index and num is
\* random.randint(1, 100)
get_random_profile_image(doctor_name, c, genderCall, static1, static2, choice, num) ==
    LET sel == select_sample_image_by_gender(doctor_name, c, genderCall)
    IN  IF doctor_name # "" /\ static1
            THEN AvReturn(StaticUrl(sel.image), NoKey, sel.ran)
        ELSE IF static2
            THEN AvReturn(StaticUrl(choice), NoKey,
                          (IF doctor_name # "" THEN sel.ran ELSE <<>>) \o <<"random">>)
        ELSE AvReturn(UiAvatars(num), NoKey,
                      (IF doctor_name # "" THEN sel.ran ELSE <<>>)
                          \o <<"random", "placeholder">>)

AvatarOut(fn, name, description, c, o) ==
    [fn |-> fn, name |-> name, description |-> description, client |-> c, out |-> o]
NoAvatar == AvatarOut("none", "", "", FALSE, AvRaise(NoKey, <<>>))

resolve_avatar(description, doctor_name, styleCall, genderCall, staticOk) ==
    /\ avatar_prev' = avatar_out
    /\ avatar_out' = AvatarOut("generate_avatar_from_description", doctor_name,
                               description, client,
                               generate_avatar_from_description(description, doctor_name,
                                   client, styleCall, genderCall, staticOk))
    /\ UNCHANGED <<chatVars, parseVars, storeVars, api_out, select_out>>

profile_image(doctor_name, genderCall, static1, static2, choice, num) ==
    /\ avatar_prev' = avatar_out
    /\ avatar_out' = AvatarOut("get_random_profile_image", doctor_name, "", client,
                               get_random_profile_image(doctor_name, client, genderCall,
                                   static1, static2, choice, num))
    /\ UNCHANGED <<chatVars, parseVars, storeVars, api_out, select_out>>

----------------------------------------------------------------------------
(* The avatar-generation endpoint *)

\* a value of the request body: a string, a number or null
StrVal(v) == [type |-> "str", v |-> v]
NumVal == [type |-> "num", v |-> ""]
NullVal == [type |-> "null", v |-> ""]

\* data.get('description', '') and data.get('name', 'Doctor') of a parsed body
BodyValue(tok) ==
    CASE tok = "{desc,name}" -> [description |-> StrVal("calm"), name |-> StrVal("Bob")]
      [] tok = "{desc}" -> [description |-> StrVal("calm"), name |-> StrVal("Doctor")]
      [] tok = "{name}" -> [description |-> StrVal(""), name |-> StrVal("Bob")]
      [] tok = "{desc-empty,name}" -> [description |-> StrVal(""), name |-> StrVal("Bob")]
      [] tok = "{desc,name-null}" -> [description |-> StrVal("calm"), name |-> NullVal]
      [] tok = "{desc,name-num}" -> [description |-> StrVal("calm"), name |-> NumVal]
      [] tok = "{desc-num,name}" -> [description |-> NumVal, name |-> StrVal("Bob")]
      [] OTHER -> [description |-> StrVal(""), name |-> StrVal("Doctor")]

\* the gender tier of select_sample_image_by_gender picks an image (it reads
\* the name in the prompt alone)
GenderTierPicks(sel) == sel.ran = <<"gender-ai">>

\* get_random_profile_image on any value: None is falsy; on a number
\* doctor_name.encode() raises AttributeError wherever the name is hashed,
\* which the bare except passes on to the random choice
profile_image_of(name, sel, c, genderCall, static1, static2, choice, num) ==
    LET byString == get_random_profile_image(IF name.type = "str" THEN name.v ELSE "",
                        c, genderCall, static1, static2, choice, num)
    IN  IF name.type = "num" /\ GenderTierPicks(sel) /\ static1
            THEN AvReturn(StaticUrl(sel.image), NoKey, <<"gender-ai">>)
            ELSE byString

\* generate_avatar_from_description on any description and name.  A name that
\* is no string raises AttributeError at doctor_name.encode(): with no client
\* in the except clause itself, with a client in the try block (the default
\* of params.get('seed', ...)) and in the hash fallback of the gender tier.
\* A description that is no string raises at description.encode() in the
\* last fallback.
generate_avatar_of(description, name, sel, c, styleCall, genderCall, staticOk) ==
    LET byString == generate_avatar_from_description(description.v, name.v, c,
                        styleCall, genderCall, staticOk)
    IN  IF name.type = "str" /\ description.type = "str" THEN byString
        ELSE IF name.type = "str"
            THEN IF c /\ byString.method = "dicebear-fallback"
                   THEN AvRaise("AttributeError", byString.ran)
                   ELSE byString
        ELSE IF ~c THEN AvRaise("AttributeError", <<"name-hash", "placeholder">>)
        ELSE IF GenderTierPicks(sel) /\ staticOk
            THEN AvReturn(StaticUrl(sel.image), "sample-image-fallback",
                          <<"style-ai", "gender-ai">>)
        ELSE IF description.type = "str"
            THEN AvReturn(DiceBear("avataaars", Md5Hex(description.v), NoKey),
                          "dicebear-fallback", <<"style-ai", "gender-ai", "placeholder">>)
        ELSE AvRaise("AttributeError", <<"style-ai", "gender-ai", "placeholder">>)

ApiOut(method, body, status, keys, url) ==
    [method |-> method, body |-> body, status |-> status, keys |-> keys, url |-> url]
NoApi == ApiOut("none", <<>>, 0, {}, NoUrl)

\* the JSON response of generate_avatar_api: its status, the keys of its
\* object and the avatar_url it carries.  parsed: json.loads(request.body)
\* gave an object; fallback: get_random_profile_image's URL for the error
\* responses; made: the outcome of generate_avatar_from_description
generate_avatar_response(method, body, parsed, description, fallback, made) ==
    IF method # "POST"
        THEN ApiOut(method, body, 405, {"error"}, NoUrl)
    ELSE IF ~parsed
        THEN ApiOut(method, body, 500, {"error", "avatar_url"}, fallback)
    ELSE IF description = StrVal("")
        THEN ApiOut(method, body, 400, {"error", "avatar_url"}, fallback)
    ELSE IF made.kind = "raise"
        THEN ApiOut(method, body, 500, {"error", "avatar_url"}, fallback)
    ELSE ApiOut(method, body, 200,
                {"success", "avatar_url", "params", "description"}, made.url)

\* the name the error responses pass to get_random_profile_image: the
\* literal 'Doctor' when the body did not parse, data's name otherwise
FallbackName(parsed, data) == IF parsed THEN data.name ELSE StrVal("Doctor")

generate_avatar_api(method, body, styleCall, genderCall, static0, static1, static2, choice, num) ==
    /\ \E loaded \in {json_loads(body)} :
       \E parsed \in {loaded.ok /\ TypeOf(loaded.tok) = "object"} :
       \E data \in {BodyValue(loaded.tok)} :
       \E name \in {FallbackName(parsed, data)} :
       \E sel \in {select_sample_image_by_gender("", client, genderCall)} :
       \E fallback \in {profile_image_of(name, sel, client, genderCall,
                                          static1, static2, choice, num).url} :
       \E made \in {generate_avatar_of(data.description, data.name, sel, client,
                                        styleCall, genderCall, static0)} :
         api_out' = generate_avatar_response(method, body, parsed,
                                             data.description, fallback, made)
    /\ UNCHANGED <<avatar_out, avatar_prev, select_out, chatVars, parseVars, storeVars>>

----------------------------------------------------------------------------
(* The gender tier on its own *)

SelectOut(name, c, call, sel) ==
    [name |-> name, client |-> c, ok |-> call.ok, text |-> call.text,
     image |-> sel.image, ran |-> sel.ran]
NoSelect == SelectOut(NoKey, FALSE, NoCall, Selected(0, <<>>))

select_image(doctor_name, genderCall) ==
    /\ select_out' = SelectOut(doctor_name, client, genderCall,
                               select_sample_image_by_gender(doctor_name, client, genderCall))
    /\ UNCHANGED <<avatar_out, avatar_prev, api_out, chatVars, parseVars, storeVars>>

----------------------------------------------------------------------------
(* Specifications *)

InitChatIdle ==
    /\ client = TRUE
    /\ chat_history = <<>>
    /\ full_log = <<>>
    /\ prev_history = <<>>
    /\ chat_out = NoChat
InitParseIdle ==
    /\ response_text = <<>>
    /\ parse_out = NoParse
InitStoreIdle ==
    /\ store = <<>>
    /\ next_id = 1
    /\ http_out = NoHttp
InitAvatarIdle ==
    /\ avatar_out = NoAvatar
    /\ avatar_prev = NoAvatar
    /\ api_out = NoApi
    /\ select_out = NoSelect

\* parse_ai_response on every text of at most MaxTextLen tokens
InitParse ==
    /\ response_text \in Texts
    /\ parse_out = NoParse
    /\ InitChatIdle /\ InitStoreIdle /\ InitAvatarIdle
NextParse == Parse
SpecParse == InitParse /\ [][NextParse]_vars

\* one session of the chatbot
UserInputs == {<<"hi">>, <<"find">>}
RichReplies ==
    {<<"prose">>, <<WS, "prose">>, <<FENCE, "prose", FENCE>>,
     <<"{chat}">>, <<FENCE, "json", "{chat}", FENCE>>, <<"{chat-nomsg}">>,
     <<"{search}">>, <<"{search-nomsg}">>, <<"{search-fee0}">>, <<"{msg}">>, <<"{}">>,
     <<DIGITS>>, <<"str-lit">>, <<"[1]">>, <<"null">>}
LongReplies == {<<"prose">>}
Calls(replies) == {CallFailed} \cup {CallReturned(t) : t \in replies}

InitChat ==
    /\ client \in BOOLEAN
    /\ chat_history = <<>>
    /\ full_log = <<>>
    /\ prev_history = <<>>
    /\ chat_out = NoChat
    /\ store = SeedStore
    /\ next_id = Len(SeedStore) + 1
    /\ http_out = NoHttp
    /\ InitParseIdle /\ InitAvatarIdle

NextChat ==
    \/ \E c \in Calls(RichReplies), tie \in Ties :
            chatbot_post(<<"hi">>, c, tie, ChatTurns)
    \/ chatbot_get
    \/ \E c \in BOOLEAN : load_module(c)
SpecChat == InitChat /\ [][NextChat]_vars

NextHistory ==
    \/ \E u \in UserInputs, c \in Calls(LongReplies) :
            chatbot_post(u, c, "asc", MaxTurns)
    \/ chatbot_get
    \/ \E c \in BOOLEAN : load_module(c)
SpecHistory == InitChat /\ [][NextHistory]_vars

\* the record store under create, update, delete and detail
Methods == {"GET", "POST"}
InitStore == InitStoreIdle /\ InitChatIdle /\ InitParseIdle /\ InitAvatarIdle
NextStore ==
    \/ \E m \in Methods, valid \in BOOLEAN, f \in Fields : create_contact(m, valid, f)
    \/ \E id \in 1..next_id, m \in Methods, valid \in BOOLEAN, f \in Fields :
            update_contact(id, m, valid, f)
    \/ \E id \in 1..next_id : delete_contact(id)
    \/ \E id \in 1..next_id : contact_detail(id)
SpecStore == InitStore /\ [][NextStore]_vars

\* the two filtered queries on every table of SearchStores
InitSearch ==
    /\ store \in SearchStores
    /\ next_id = Len(store) + 1
    /\ http_out = NoHttp
    /\ InitChatIdle /\ InitParseIdle /\ InitAvatarIdle
NextSearch ==
    \/ \E f \in Filters, tie \in Ties : ai_search(f, tie)
    \/ \E m \in Methods, valid \in BOOLEAN, f \in Filters, tie \in Ties :
            recommend(m, valid, f, tie)
SpecSearch == InitSearch /\ [][NextSearch]_vars

\* the avatar resolver under every outcome of its collaborators
Names == {"Bob", ""}
Descriptions == {"calm"}
StyleReplies == {<<"{style}">>, <<FENCE, "json", "{style-empty}", FENCE>>,
                 <<"prose">>, <<"[1]">>}
GenderReplies == {<<"{male-1}">>, <<"{male-5}">>, <<"{female-2}">>, <<"{idx-9}">>,
                  <<"{idx-neg1}">>, <<"{idx-str}">>, <<"prose">>, <<"[1]">>}
Choices == {0, SampleCount - 1}
Nums == {100}

InitAvatar ==
    /\ client \in BOOLEAN
    /\ chat_history = <<>>
    /\ full_log = <<>>
    /\ prev_history = <<>>
    /\ chat_out = NoChat
    /\ InitAvatarIdle /\ InitParseIdle /\ InitStoreIdle
NextAvatar ==
    \/ \E d \in Descriptions, n \in Names, sc \in Calls(StyleReplies),
          gc \in Calls(GenderReplies), ok \in BOOLEAN :
            resolve_avatar(d, n, sc, gc, ok)
    \/ \E n \in Names, gc \in Calls(GenderReplies), s1 \in BOOLEAN, s2 \in BOOLEAN,
          ch \in Choices, num \in Nums :
            profile_image(n, gc, s1, s2, ch, num)
    \/ \E c \in BOOLEAN : load_module(c)
SpecAvatar == InitAvatar /\ [][NextAvatar]_vars

\* the avatar-generation endpoint under every request and every outcome of
\* its collaborators
Bodies == {<<"{desc,name}">>, <<"{desc}">>, <<"{name}">>, <<"{desc-empty,name}">>,
           <<"{desc,name-null}">>, <<"{desc,name-num}">>, <<"{desc-num,name}">>,
           <<"prose">>, <<"[1]">>, <<>>}
ApiStyleReplies == {<<"{style}">>, <<"prose">>}
ApiGenderReplies == {<<"{male-5}">>, <<"prose">>}
NextAvatarApi ==
    \/ \E m \in Methods, b \in Bodies, sc \in Calls(ApiStyleReplies),
          gc \in Calls(ApiGenderReplies), s0 \in BOOLEAN, s1 \in BOOLEAN,
          s2 \in BOOLEAN, ch \in Choices, num \in Nums :
            generate_avatar_api(m, b, sc, gc, s0, s1, s2, ch, num)
    \/ \E c \in BOOLEAN : load_module(c)
SpecAvatarApi == InitAvatar /\ [][NextAvatarApi]_vars

\* select_sample_image_by_gender on every name and every reply of the model
SelectNames == {"Alice", "Bob", "Doctor", "John Smith", ""}
SelectReplies ==
    {<<"{male-1}">>, <<"{male-5}">>, <<"{female-6}">>, <<"{female-2}">>,
     <<"{idx-9}">>, <<"{idx-neg1}">>, <<"{idx-str}">>, <<"{no-idx}">>,
     <<FENCE, "json", "{female-6}", FENCE>>, <<FENCE, "{male-1}", FENCE>>,
     <<WS, "{female-2}">>, <<"prose">>, <<"[1]">>, <<FENCE>>}
NextSelect ==
    \/ \E n \in SelectNames, gc \in Calls(SelectReplies) : select_image(n, gc)
    \/ \E c \in BOOLEAN : load_module(c)
SpecSelect == InitAvatar /\ [][NextSelect]_vars

----------------------------------------------------------------------------
(* Claims *)

Range(q) == {q[i] : i \in 1..Len(q)}

\* C1: the persisted history has at most 20 turns and is the last min(20, n)
\* of the n turns appended so far, in their order
C1_HistoryIsLastTwenty ==
    /\ Len(chat_history) <= 20
    /\ Len(chat_history) = Min(20, Len(full_log))
    /\ \A i \in 1..Len(chat_history) :
            chat_history[i] = full_log[Len(full_log) - Len(chat_history) + i]

\* more than 20 turns were appended, then a request failed
C1_Witness ==
    /\ Len(full_log) > 20
    /\ chat_out.model = "raise"
    /\ chat_history[1] = full_log[Len(full_log) - 19]

\* C2: the persisted history has even length and alternates User, Assistant,
\* starting with User
C2_HistoryAlternates ==
    /\ Len(chat_history) % 2 = 0
    /\ \A i \in 1..Len(chat_history) :
            chat_history[i].role = IF i % 2 = 1 THEN "User" ELSE "Assistant"

\* the history was truncated and a client-absent request followed
C2_Witness ==
    /\ Len(full_log) > 20
    /\ Len(chat_history) = 20
    /\ chat_out.model = "absent"

\* C3: a request whose model call raises is answered with the one error
\* message carrying the failure, and leaves the history as it was
C3_FailedCallKeepsHistory ==
    chat_out.model = "raise" =>
        /\ chat_out.bot = BotError("APIError")
        /\ chat_history = prev_history

\* a call failed in a session that already had turns
C3_Witness ==
    /\ chat_out.model = "raise"
    /\ chat_out.bot.kind = "error"
    /\ Len(prev_history) >= 2

\* the text that reaches json.loads cannot be parsed (or cannot be cut out)
Unparseable(text) ==
    LET inner == StripFence(Strip(text))
    IN  inner.ok => ~json_loads(inner.text).ok

\* C4: on a text that cannot be parsed after fence stripping,
\* parse_ai_response raises nothing and returns action chat with the raw
\* text, unstripped and with its fences, as the message
C4_UnparseableIsRawChat ==
    (parse_out.kind # "none" /\ Unparseable(response_text)) =>
        /\ parse_out.kind = "return"
        /\ parse_out.data.type = "object"
        /\ parse_out.data.action = "chat"
        /\ parse_out.data.message = SomeText(response_text)

\* a fenced, padded text that does not parse came back whole
C4_Witness ==
    /\ parse_out.kind = "return"
    /\ Unparseable(response_text)
    /\ Len(response_text) = MaxTextLen
    /\ response_text[1] = WS
    /\ response_text[2] = FENCE
    /\ response_text[3] = "json"
    /\ parse_out.data.message.v = response_text

\* the reply of the last request parsed to something that is no object
ReplyIsNoObject ==
    LET po == parse_ai_response(chat_out.text)
    IN  po.kind = "return" /\ po.data.type # "object"

\* the reply of the last request is a well-formed action descriptor
ReplyIsDescriptor ==
    LET po == parse_ai_response(chat_out.text)
    IN  po.kind = "return" /\ po.data.type = "object" /\ po.data.action # NoKey
            /\ ~Unparseable(chat_out.text)

\* C5: a reply that is no well-formed action descriptor is never answered
\* with the error message; when it is unparseable or no object, the raw text
\* is the chat reply
C5_MalformedReplyRecovers ==
    (chat_out.model = "ok" /\ ~ReplyIsDescriptor) =>
        /\ chat_out.bot.kind = "chat"
        /\ (Unparseable(chat_out.text) \/ ReplyIsNoObject) =>
                chat_out.bot = BotChat(chat_out.text)

\* C6: both avatar functions return an image reference and raise nothing,
\* whatever the client, the model calls and the static lookups do
C6_AvatarAlwaysResolves ==
    avatar_out.fn # "none" =>
        /\ avatar_out.out.kind = "return"
        /\ avatar_out.out.url # NoUrl
        /\ avatar_out.out.url.host \in {"static", "api.dicebear.com", "ui-avatars.com"}

\* the style call, the gender call and the static lookup all failed
C6_Witness ==
    /\ avatar_out.fn = "generate_avatar_from_description"
    /\ avatar_out.client
    /\ avatar_out.out.ran = <<"style-ai", "gender-ai", "name-hash", "placeholder">>
    /\ avatar_out.out.kind = "return"
    /\ avatar_out.out.url.host = "api.dicebear.com"

TierRank(t) ==
    CASE t = "style-ai" -> 1 [] t = "gender-ai" -> 2 [] t = "name-hash" -> 3
      [] t = "placeholder" -> 4 [] OTHER -> 5
Producer(o) == o.out.ran[Len(o.out.ran)]
InTierOrder(ran) ==
    /\ ran # <<>>
    /\ ran[1] = "style-ai"
    /\ \A i \in 1..(Len(ran) - 1) : TierRank(ran[i]) < TierRank(ran[i + 1])
WithClient(o) == o.fn = "generate_avatar_from_description" /\ o.client

\* C7 as stated: the tiers run in order and the method tag identifies the
\* tier that produced the result, so two resolutions that end in different
\* tiers carry different tags
C7_TagIdentifiesTier ==
    /\ WithClient(avatar_out) => InTierOrder(avatar_out.out.ran)
    /\ (WithClient(avatar_out) /\ WithClient(avatar_prev)
            /\ Producer(avatar_out) # Producer(avatar_prev)) =>
        avatar_out.out.method # avatar_prev.out.method

\* the tag the code gives the result of a tier
TagOfTier(t) ==
    CASE t = "style-ai" -> "dicebear-ai"
      [] t \in {"gender-ai", "name-hash"} -> "sample-image-fallback"
      [] OTHER -> "dicebear-fallback"

\* C7 as amended: with the client configured the tiers run in order, the
\* name-hash tier only after the gender tier, and the tag is dicebear-ai,
\* sample-image-fallback (gender and name-hash tier alike) or
\* dicebear-fallback: two resolutions that end in different tiers carry
\* different tags unless they end in the gender and the name-hash tier
C7_TiersInOrderTagByKind ==
    /\ WithClient(avatar_out) =>
        /\ InTierOrder(avatar_out.out.ran)
        /\ \A i \in 1..Len(avatar_out.out.ran) :
                avatar_out.out.ran[i] = "name-hash" =>
                    (i > 1 /\ avatar_out.out.ran[i - 1] = "gender-ai")
        /\ avatar_out.out.method = TagOfTier(Producer(avatar_out))
    /\ (WithClient(avatar_out) /\ WithClient(avatar_prev)
            /\ Producer(avatar_out) # Producer(avatar_prev)
            /\ {Producer(avatar_out), Producer(avatar_prev)} # {"gender-ai", "name-hash"}) =>
        avatar_out.out.method # avatar_prev.out.method

\* the same doctor resolved twice, the gender tier failing the second time:
\* the tier advances and the tag stays
C7_Witness ==
    /\ WithClient(avatar_out) /\ WithClient(avatar_prev)
    /\ avatar_out.name = avatar_prev.name
    /\ Producer(avatar_prev) = "gender-ai"
    /\ Producer(avatar_out) = "name-hash"
    /\ avatar_out.out.method = avatar_prev.out.method

\* rating descending, then fees ascending
Better(a, b) == a.rating > b.rating \/ (a.rating = b.rating /\ a.fees < b.fees)
Ordered(q) == \A i, j \in 1..Len(q) : i < j => ~Better(q[j], q[i])
NoRepeat(q) == \A i, j \in 1..Len(q) : i # j => q[i] # q[j]

\* the rows of the table the last query ran on that pass its filter
Matching == Filtered(http_out.before, http_out.filter)

\* C8: search_doctors returns the first min(10, m) of the m matching rows in
\* rating-descending, fees-ascending order; recommend returns all m in that
\* order
C8_OrderedAndCapped ==
    /\ http_out.op = "search_doctors" =>
        /\ Len(http_out.results) = Min(10, Cardinality(Matching))
        /\ Range(http_out.results) \subseteq Matching
        /\ NoRepeat(http_out.results)
        /\ Ordered(http_out.results)
        /\ \A r \in Matching \ Range(http_out.results) :
                \A x \in Range(http_out.results) : ~Better(r, x)
    /\ (http_out.op = "recommend" /\ http_out.queried) =>
        /\ Len(http_out.results) = Cardinality(Matching)
        /\ Range(http_out.results) = Matching
        /\ Ordered(http_out.results)

\* more than ten rows matched and the ten returned differ in rating and fees
C8_Witness ==
    /\ http_out.op = "search_doctors"
    /\ Cardinality(Matching) > 10
    /\ Len(http_out.results) = 10
    /\ http_out.results[1].rating > http_out.results[10].rating
    /\ \E i \in 1..9 :
        /\ http_out.results[i].rating = http_out.results[i + 1].rating
        /\ http_out.results[i].fees < http_out.results[i + 1].fees

\* every field of the filter that is present (0 included) holds of the row
PassesPresent(r, f) ==
    /\ f.specialty.some => icontains(r.specialty, f.specialty.v)
    /\ f.city.some => icontains(r.city, f.city.v)
    /\ f.max_fees.some => r.fees <= f.max_fees.v
    /\ f.min_rating.some => r.rating >= f.min_rating.v

\* C9: every returned row satisfies every present predicate, a numeric field
\* of value 0 counting as present
C9_PresentFieldsConstrain ==
    http_out.queried =>
        \A r \in Range(http_out.results) : PassesPresent(r, http_out.filter)

\* C10: update, delete and detail on an id no row has end in 404 and leave
\* the table as it was
C10_MissingIdIsNotFound ==
    (http_out.op \in {"update", "delete", "detail"}
        /\ ~HasId(http_out.before, http_out.id)) =>
        /\ http_out.status = 404
        /\ store = http_out.before

\* an avatar_url a client can load
Usable(url) == url.host \in {"static", "api.dicebear.com", "ui-avatars.com"}

\* C11: every response of the endpoint is a 2xx response carrying success,
\* avatar_url, params and description, or a non-2xx response carrying error
\* and a usable avatar_url
C11_ResponseHasOneOfTwoShapes ==
    api_out.method # "none" =>
        \/ /\ api_out.status \in 200..299
           /\ api_out.keys = {"success", "avatar_url", "params", "description"}
           /\ Usable(api_out.url)
        \/ /\ api_out.status \notin 200..299
           /\ api_out.keys = {"error", "avatar_url"}
           /\ Usable(api_out.url)

\* the gender the reply of the last select_sample_image_by_gender call names
ClassifiedGender ==
    GenderValue(AvatarReply(CallReturned(select_out.text)).tok).gender

\* C12: when the gender tier picks the image, a reply of gender male gives
\* an index in 0..3 and a reply of gender female an index in 4..7; the index
\* is always in 0..7
C12_ImageFromMatchingHalf ==
    /\ select_out.image \in 0..7
    /\ (select_out.ok /\ select_out.ran = <<"gender-ai">>) =>
        /\ ClassifiedGender = "male" => select_out.image \in 0..3
        /\ ClassifiedGender = "female" => select_out.image \in 4..7

====
